---------------------------- MODULE Spec2Model ----------------------------
(***************************************************************************)
(* Layout engine of the ilw-org-chart web component (src/src/tree.ts, the  *)
(* current version of the module, lines 694-1784) and the task that drives *)
(* it (src/src/ilw-org-chart.ts, lines 215-265).                           *)
(*                                                                         *)
(* One run of the component's task is the sequence                         *)
(*   treeLevelOrgs -> calculateLevelOrientations -> measureOrgBoxes        *)
(*   (which ends with calculateHorizontalPositions)                        *)
(*   -> calculateLinesBetweenOrgs.                                         *)
(* Each stage is one action; its body is the stage's code, written as      *)
(* operators that keep the source's names.                                 *)
(*                                                                         *)
(* The nodes of the input tree are numbered 1..n in pre-order, which is    *)
(* the order in which traverse visits them; parent[1] = 0 marks the root.  *)
(* Lengths are exact rationals <<numerator, denominator>>.                 *)
(***************************************************************************)
EXTENDS Integers, Sequences, FiniteSets, TLC

VARIABLES
    org,          \* OrgChart.org: the input tree, or NoOrg before it is set
    width,        \* OrgChart.width, parsed: config.availableSpace of the run
    pc,           \* position of the task: which stage has completed
    orgIdCount,   \* tree.ts module variable: next ConnectedOrg id
    nodes,        \* ConnectedOrg fields per node: id, level, originalIndex, lineSkipsLevels
    levels,       \* TreeLevelMap: the TreeLevel entries in insertion order
    levels0,      \* the TreeLevelMap as treeLevelOrgs returned it
    nodes0,       \* the ConnectedOrg fields as treeLevelOrgs returned them
    expanded,     \* levels propagateVertical expanded, in order
    placements,   \* Map<id, OrgPlacement>, indexed by node
    lines,        \* OrgLine[] returned by calculateLinesBetweenOrgs
    attached,     \* hidden measurement containers attached to document.body
    err,          \* the exception that ended the run, or NoErr
    firstRun,     \* what an earlier run of the task left, or NoRun
    availableSpace \* OrgChart.config.availableSpace: a field of the static config

vars == <<org, width, pc, orgIdCount, nodes, levels, levels0, nodes0,
          expanded, placements, lines, attached, err,
          firstRun, availableSpace>>

-----------------------------------------------------------------------------
(* Bounds of the model. *)

\* Trees of up to MaxNodes nodes are enumerated with every choice of weights.
MaxNodes == 4

\* At most MaxLarge nodes of an enumerated tree carry large = true.
MaxLarge == 1

\* node.weight of the enumerated trees
Weights == {-1, 0, 1}

\* values of the width attribute (config.availableSpace)
Widths == {100, 250, 400, 1200}

-----------------------------------------------------------------------------
(* Small helpers on sequences. *)

Range(s) == {s[k] : k \in DOMAIN s}

RECURSIVE SeqFilterIn(_, _)
\* Array.prototype.filter keeping the elements that are in S
SeqFilterIn(s, S) ==
    IF s = <<>> THEN <<>>
    ELSE IF Head(s) \in S THEN <<Head(s)>> \o SeqFilterIn(Tail(s), S)
         ELSE SeqFilterIn(Tail(s), S)

Max2(a, b) == IF a >= b THEN a ELSE b

SetMax(S) == CHOOSE x \in S : \A y \in S : y <= x

-----------------------------------------------------------------------------
(* Numbers.  A length is <<numerator, denominator>> in lowest terms with a  *)
(* positive denominator; <<0, 0>> is NaN and <<>> is undefined.            *)

RECURSIVE GCD(_, _)
GCD(a, b) == IF b = 0 THEN a ELSE GCD(b, a % b)

Abs(a) == IF a < 0 THEN -a ELSE a

NaN == <<0, 0>>

Undefined == <<>>

IsNum(a) == a # Undefined /\ a[2] # 0

Norm(n, d) ==
    IF d = 0 THEN NaN
    ELSE LET g == GCD(Abs(n), Abs(d))
             sgn == IF d < 0 THEN -1 ELSE 1
         IN  <<sgn * (n \div g), sgn * (d \div g)>>

Q(n) == <<n, 1>>

\* a + b; undefined + number is NaN, as in JavaScript
QAdd(a, b) ==
    IF ~IsNum(a) \/ ~IsNum(b) THEN NaN
    ELSE Norm(a[1] * b[2] + b[1] * a[2], a[2] * b[2])

QNeg(a) == IF ~IsNum(a) THEN NaN ELSE <<-a[1], a[2]>>

QSub(a, b) == QAdd(a, QNeg(b))

QMul(a, b) ==
    IF ~IsNum(a) \/ ~IsNum(b) THEN NaN ELSE Norm(a[1] * b[1], a[2] * b[2])

QDiv(a, b) ==
    IF ~IsNum(a) \/ ~IsNum(b) THEN NaN ELSE Norm(a[1] * b[2], a[2] * b[1])

QHalf(a) == QDiv(a, Q(2))

\* a < b; every comparison with NaN is false
QLt(a, b) == IsNum(a) /\ IsNum(b) /\ a[1] * b[2] < b[1] * a[2]

QLe(a, b) == IsNum(a) /\ IsNum(b) /\ a[1] * b[2] <= b[1] * a[2]

\* Math.max(a, b), Math.min(a, b)
QMax(a, b) == IF ~IsNum(a) \/ ~IsNum(b) THEN NaN ELSE IF QLt(a, b) THEN b ELSE a

QMin(a, b) == IF ~IsNum(a) \/ ~IsNum(b) THEN NaN ELSE IF QLt(b, a) THEN b ELSE a

-----------------------------------------------------------------------------
(* The input tree (interface Org) and its derived links. *)

NoOrg == [n |-> 0, parent |-> <<>>, weight |-> <<>>, large |-> <<>>]

RECURSIVE Ancestors(_, _)
\* the proper ancestors of node i under the parent vector p
Ancestors(p, i) == IF p[i] = 0 THEN {} ELSE {p[i]} \cup Ancestors(p, p[i])

\* parent vectors of the ordered trees with n nodes, numbered in pre-order
Shapes(n) ==
    {p \in [1..n -> 0..(n - 1)] :
        /\ p[1] = 0
        /\ \A i \in 2..n : p[i] \in 1..(i - 1)
        /\ \A i \in 3..n : p[i] \in {i - 1} \cup Ancestors(p, i - 1)}

\* node.children of node i, in order
Children(o, i) == SeqFilterIn([k \in 1..o.n |-> k], {j \in 1..o.n : o.parent[j] = i})

EnumeratedOrgs ==
    UNION {
        {[n |-> n, parent |-> p, weight |-> w, large |-> l] :
            p \in Shapes(n),
            w \in [1..n -> Weights],
            l \in {f \in [1..n -> BOOLEAN] :
                      Cardinality({i \in 1..n : f[i]}) <= MaxLarge}}
        : n \in 1..MaxNodes}

\* an org tree without large boxes
Tree(p, w) ==
    [n |-> Len(p), parent |-> p, weight |-> w, large |-> [i \in 1..Len(p) |-> FALSE]]

\* larger charts, each with the width attribute it is rendered at
Scenarios ==
    { \* three sibling branches, the first with two children
      <<Tree(<<0, 1, 2, 2, 1, 5, 1, 7>>, <<0, 0, 0, 0, 0, 0, 0, 0>>), 1200>>,
      \* five children of the root, three of them with one child
      <<Tree(<<0, 1, 2, 1, 1, 1, 6, 1, 8>>, <<0, 0, 0, 0, 0, 0, 0, 0, 0>>), 800>>,
      \* three children lifted to the root's level, the third with a child
      <<Tree(<<0, 1, 1, 1, 4>>, <<0, -1, -1, -1, 0>>), 1200>>,
      \* a branch pushed two levels down beside a branch with grandchildren
      <<Tree(<<0, 1, 2, 2, 4, 1>>, <<0, 0, 0, 0, 0, 2>>), 250>>,
      \* two branches, the first with a child pushed one level further down
      <<Tree(<<0, 1, 2, 1, 4>>, <<0, 0, 1, 0, 0>>), 1200>>,
      \* two branches pushed down, the first one a level further than the second
      <<Tree(<<0, 1, 2, 1, 4>>, <<0, 0, 1, 1, 0>>), 100>>,
      \* three branches, each with a child pushed one level further down
      <<Tree(<<0, 1, 2, 2, 1, 5, 1, 7>>, <<0, 0, 0, 1, 0, 1, 0, 1>>), 1200>>,
      \* a child lifted two levels, above the root
      <<Tree(<<0, 1>>, <<0, -2>>), 1200>>,
      \* two branches, the second one large, each with a child lifted to its level
      <<[Tree(<<0, 1, 2, 1, 4>>, <<0, 0, -1, 0, -1>>) EXCEPT !.large[4] = TRUE], 600>>,
      \* a branch pushed one level down beside a branch whose second child has a
      \* child pushed one level down
      <<Tree(<<0, 1, 1, 3, 3, 5>>, <<0, 1, 0, 1, 0, 1>>), 250>> }

\* the charts and widths the component is rendered with
Inputs == (EnumeratedOrgs \X Widths) \cup Scenarios

-----------------------------------------------------------------------------
(* OrgChart.config *)

config ==
    [horizontalSpacing |-> 40,
     availableSpace |-> availableSpace,
     verticalChildOffset |-> 20,
     verticalSpacing |-> 30,
     verticalSubtreeSpacing |-> 20,
     maxColWidth |-> 300,
     minColWidth |-> 150,
     skipLineExtraSpacing |-> 80,
     \* 1.5, as numerator and denominator
     largeOrgSizeMultiplier |-> <<3, 2>>]

-----------------------------------------------------------------------------
(* class TreeLevel, class TreeLevelMap *)

\* lineSkipsLevels of a ConnectedOrg that has none (undefined)
NoSkip == 0

TreeLevel(level, orgs) ==
    [level |-> level, orgs |-> orgs, orientation |-> "unset",
     rightSkipLine |-> FALSE, leftSkipLine |-> FALSE, emptySpaces |-> <<>>]

\* Map.has
Has(lv, level) == \E k \in DOMAIN lv : lv[k].level = level

\* position of a key in the map's insertion order
Idx(lv, level) == CHOOSE k \in DOMAIN lv : lv[k].level = level

\* Map.get, for a key the map has
Get(lv, level) == lv[Idx(lv, level)]

\* Map.keys
Keys(lv) == {lv[k].level : k \in DOMAIN lv}

\* if (!levels.has(level)) levels.set(level, new TreeLevel(level, []))
Ensure(lv, level) == IF Has(lv, level) THEN lv ELSE Append(lv, TreeLevel(level, <<>>))

\* levels.get(level)!.orgs.push(i), creating the level when it is missing
PushOrg(lv, level, i) ==
    LET l1 == Ensure(lv, level)
    IN  [l1 EXCEPT ![Idx(l1, level)].orgs = Append(@, i)]

-----------------------------------------------------------------------------
(* treeLevelOrgs *)

BlankNode == [id |-> 0, level |-> 0, originalIndex |-> 0, lineSkipsLevels |-> NoSkip]

RECURSIVE traverse(_, _, _, _, _)
RECURSIVE traverseChildren(_, _, _, _, _, _)

\* a traversal that ignores node.weight
traverseUnweighted(o, i, currentLevel, originalIndex, st) ==
    LET st1 == [st EXCEPT
                   !.nodes[i] = [id |-> st.idc, level |-> currentLevel,
                                 originalIndex |-> originalIndex,
                                 lineSkipsLevels |-> NoSkip],
                   !.idc = @ + 1,
                   !.levels = PushOrg(@, currentLevel, i)]
    IN  traverseChildren(o, i, currentLevel, Children(o, i), 1, st1)

\* function traverse(node, parent, currentLevel, originalIndex): the new
\* ConnectedOrg gets the next id and is pushed to its level, then its
\* children are traversed in order.  st = [nodes, levels, idc].
traverse(o, i, currentLevel, originalIndex, st) ==
    LET level == currentLevel + o.weight[i]
        st1 == [st EXCEPT
                   !.nodes[i] = [id |-> st.idc, level |-> level,
                                 originalIndex |-> originalIndex,
                                 lineSkipsLevels |-> NoSkip],
                   !.idc = @ + 1,
                   !.levels = PushOrg(@, level, i)]
    IN  traverseChildren(o, i, level, Children(o, i), 1, st1)

\* the loop over node.children inside traverse
traverseChildren(o, i, level, kids, k, st) ==
    IF k > Len(kids) THEN st
    ELSE LET st1 == traverse(o, kids[k], level + 1, k - 1, st)
             cl == st1.nodes[kids[k]].level
             st2 == IF cl > level + 1
                    THEN [st1 EXCEPT !.nodes[i].lineSkipsLevels = cl - (level + 1)]
                    ELSE st1
         IN  traverseChildren(o, i, level, kids, k + 1, st2)

\* a treeLevelOrgs that returns the traversal's levels as they are
DemoteSkipped(st) == st

\* "Top level can have at most three orgs": the orgs of level 0 after the
\* third are moved to level 1 and their level field is rewritten.
Demote(st) ==
    IF Has(st.levels, 0) /\ Len(Get(st.levels, 0).orgs) > 3
    THEN LET orgs0 == Get(st.levels, 0).orgs
             keep == SubSeq(orgs0, 1, 3)
             demotedOrgs == SubSeq(orgs0, 4, Len(orgs0))
             l1 == [st.levels EXCEPT ![Idx(st.levels, 0)].orgs = keep]
             l2 == Ensure(l1, 1)
             l3 == [l2 EXCEPT ![Idx(l2, 1)].orgs = @ \o demotedOrgs]
         IN  [st EXCEPT
                 !.levels = l3,
                 !.nodes = [i \in DOMAIN st.nodes |->
                               IF i \in Range(demotedOrgs)
                               THEN [st.nodes[i] EXCEPT !.level = 1]
                               ELSE st.nodes[i]]]
    ELSE st

\* const level = currentLevel + (node.weight ?? 0) with node === null
NullRoot == "TypeError: node is null"

\* a treeLevelOrgs whose id counter is a local of the call
treeLevelOrgsLocalCounter(o, idc) ==
    IF o = NoOrg
    THEN [nodes |-> <<>>, levels |-> <<>>, idc |-> idc, err |-> NullRoot]
    ELSE Demote(traverse(o, 1, 0, 0,
                         [nodes |-> [i \in 1..o.n |-> BlankNode],
                          levels |-> <<>>,
                          idc |-> 1,
                          err |-> ""]))

\* a treeLevelOrgs that returns an empty level map for a null root
treeLevelOrgsOfNothing(o, idc) ==
    IF o = NoOrg
    THEN [nodes |-> <<>>, levels |-> <<>>, idc |-> idc, err |-> ""]
    ELSE Demote(traverse(o, 1, 0, 0,
                         [nodes |-> [i \in 1..o.n |-> BlankNode],
                          levels |-> <<>>,
                          idc |-> idc,
                          err |-> ""]))

\* export function treeLevelOrgs(org): [nodes, levels, idc, err].  With a
\* null org the first statement of traverse reads node.weight of null and
\* throws before anything is assigned.
treeLevelOrgs(o, idc) ==
    IF o = NoOrg
    THEN [nodes |-> <<>>, levels |-> <<>>, idc |-> idc, err |-> NullRoot]
    ELSE Demote(traverse(o, 1, 0, 0,
                         [nodes |-> [i \in 1..o.n |-> BlankNode],
                          levels |-> <<>>,
                          idc |-> idc,
                          err |-> ""]))

-----------------------------------------------------------------------------
(* calculateLevelOrientations *)

\* First pass: the initial orientation of one level
InitialOrientation(cfg, tl) ==
    LET requiredWidth ==
            (IF Len(tl.orgs) = 0 THEN 1 ELSE Len(tl.orgs)) * cfg.minColWidth
    IN  IF cfg.minColWidth <= 0 \/ cfg.maxColWidth <= 0 THEN "vertical"
        ELSE IF requiredWidth <= cfg.availableSpace THEN "horizontal"
        ELSE "vertical"

FirstPass(cfg, lv) ==
    [k \in DOMAIN lv |-> [lv[k] EXCEPT !.orientation = InitialOrientation(cfg, lv[k])]]

RECURSIVE propagateVertical(_, _, _)
RECURSIVE propagateOrgs(_, _, _, _)
RECURSIVE propagateChildren(_, _, _, _)

\* function propagateVertical(level).  st = [nodes, levels, visited, expanded]
propagateVertical(o, level, st) ==
    IF level \in st.visited THEN st
    ELSE LET st1 == [st EXCEPT !.visited = @ \cup {level},
                               !.expanded = Append(@, level)]
         IN  IF ~Has(st1.levels, level) THEN st1
             ELSE LET k == Idx(st1.levels, level)
                      st2 == [st1 EXCEPT
                                 !.levels[k].orientation = "vertical",
                                 !.levels[k].leftSkipLine = FALSE,
                                 !.levels[k].rightSkipLine = FALSE]
                  IN  propagateOrgs(o, st2.levels[k].orgs, 1, st2)

\* for (const org of treeLevel.orgs) inside propagateVertical
propagateOrgs(o, orgs, j, st) ==
    IF j > Len(orgs) THEN st
    ELSE LET st1 == [st EXCEPT !.nodes[orgs[j]].lineSkipsLevels = NoSkip]
             st2 == propagateChildren(o, Children(o, orgs[j]), 1, st1)
         IN  propagateOrgs(o, orgs, j + 1, st2)

\* a propagation that stops at the level itself and does not follow children
propagateChildrenSkipped(o, kids, c, st) == st

\* for (const child of org.children) inside propagateVertical
propagateChildren(o, kids, c, st) ==
    IF c > Len(kids) THEN st
    ELSE propagateChildren(o, kids, c + 1,
                           propagateVertical(o, st.nodes[kids[c]].level, st))

RECURSIVE SecondPassForgetful(_, _, _)
\* a second pass whose visited set is emptied before every call from the loop
SecondPassForgetful(o, k, st) ==
    IF k > Len(st.levels) THEN st
    ELSE SecondPassForgetful(o, k + 1,
                    IF st.levels[k].orientation = "vertical"
                    THEN propagateVertical(o, st.levels[k].level,
                                           [st EXCEPT !.visited = {}])
                    ELSE st)

RECURSIVE SecondPass(_, _, _)
\* for (const [level, treeLevel] of levels.entries())
\*     if (treeLevel.orientation === "vertical") propagateVertical(level)
SecondPass(o, k, st) ==
    IF k > Len(st.levels) THEN st
    ELSE SecondPass(o, k + 1,
                    IF st.levels[k].orientation = "vertical"
                    THEN propagateVertical(o, st.levels[k].level, st)
                    ELSE st)

RECURSIVE thirdPassOrgs(_, _, _, _, _, _)
\* Third pass, the loop over the orgs of one vertical level: an org whose
\* level differs from parent.level + 1 is recorded to move there when that
\* level is vertical, and its level field is rewritten at once.
\* st = [nodes, orgsToMove]
thirdPassOrgs(o, lv, level, orgs, j, st) ==
    IF j > Len(orgs) THEN st
    ELSE LET x == orgs[j]
             newLevel == IF o.parent[x] # 0
                         THEN st.nodes[o.parent[x]].level + 1
                         ELSE level
             move == /\ st.nodes[x].level # newLevel
                     /\ Has(lv, newLevel)
                     /\ Get(lv, newLevel).orientation = "vertical"
             st1 == IF move
                    THEN [st EXCEPT
                             !.orgsToMove = Append(@, [org |-> x, fromLevel |-> level,
                                                       toLevel |-> newLevel]),
                             !.nodes[x].level = newLevel]
                    ELSE st
         IN  thirdPassOrgs(o, lv, level, orgs, j + 1, st1)

RECURSIVE ThirdPass(_, _, _, _)
\* for (const [level, treeLevel] of levels.entries()) of the third pass
ThirdPass(o, lv, k, st) ==
    IF k > Len(lv) THEN st
    ELSE ThirdPass(o, lv, k + 1,
                   IF lv[k].orientation = "vertical"
                   THEN thirdPassOrgs(o, lv, lv[k].level, lv[k].orgs, 1, st)
                   ELSE st)

\* a third pass that rewrites the level fields and leaves the lists alone
MoveOrgsSkipped(lv, moves, m) == lv

RECURSIVE MoveOrgs(_, _, _)
\* "Move orgs in the TreeLevelMap": each recorded org leaves the list of
\* fromLevel and is pushed to the list of toLevel
MoveOrgs(lv, moves, m) ==
    IF m > Len(moves) THEN lv
    ELSE LET mv == moves[m]
             l1 == IF Has(lv, mv.fromLevel)
                   THEN [lv EXCEPT ![Idx(lv, mv.fromLevel)].orgs =
                                       SeqFilterIn(@, Range(@) \ {mv.org})]
                   ELSE lv
         IN  MoveOrgs(PushOrg(l1, mv.toLevel, mv.org), moves, m + 1)

RECURSIVE InsertByIndex(_, _, _)
\* x placed behind every element of the sorted list whose originalIndex is
\* not larger (the sort is stable)
InsertByIndex(nd, sorted, x) ==
    IF sorted = <<>> THEN <<x>>
    ELSE IF nd[Head(sorted)].originalIndex <= nd[x].originalIndex
         THEN <<Head(sorted)>> \o InsertByIndex(nd, Tail(sorted), x)
         ELSE <<x>> \o sorted

\* a sort that leaves the list as the earlier passes left it
SortByOriginalIndexSkipped(nd, orgs) == orgs

RECURSIVE SortByOriginalIndex(_, _)
\* treeLevel.orgs.sort((a, b) => a.originalIndex - b.originalIndex)
SortByOriginalIndex(nd, orgs) ==
    IF orgs = <<>> THEN <<>>
    ELSE InsertByIndex(nd, SortByOriginalIndex(nd, SubSeq(orgs, 1, Len(orgs) - 1)),
                       orgs[Len(orgs)])

\* an edge pass that sets no skip flag
SetSkipLineSkipped(st, level, i, count, right) == st

RECURSIVE SetSkipLine(_, _, _, _, _)
\* for (i = 1; i <= edge.lineSkipsLevels; i++)
\*     levels.get(treeLevel.level + i)!.rightSkipLine (leftSkipLine) = true
\* st = [levels, err]; a level the map does not have ends the run (TypeError)
SetSkipLine(st, level, i, count, right) ==
    IF i > count \/ st.err # "" THEN st
    ELSE IF ~Has(st.levels, level + i)
         THEN [st EXCEPT !.err = "TypeError: levels.get(level + i) is undefined"]
         ELSE LET k == Idx(st.levels, level + i)
                  st1 == IF right
                         THEN [st EXCEPT !.levels[k].rightSkipLine = TRUE]
                         ELSE [st EXCEPT !.levels[k].leftSkipLine = TRUE]
              IN  SetSkipLine(st1, level, i + 1, count, right)

\* The body of the last loop for the level at position k: the level's orgs
\* are sorted by originalIndex; in a horizontal level the orgs whose lines
\* skip levels are moved to the edges (level > 0) and the skip flags of the
\* following levels are set.  st = [levels, err]
SortAndEdges(cfg, nd, k, st) ==
    LET sorted == SortByOriginalIndex(nd, st.levels[k].orgs)
        tl == st.levels[k]
        skippingOrgs == SeqFilterIn(sorted, {x \in Range(sorted) :
                                                nd[x].lineSkipsLevels > 0})
        st1 == [st EXCEPT !.levels[k].orgs = sorted]
    IN  IF tl.orientation # "horizontal" \/ Len(skippingOrgs) = 0 THEN st1
        ELSE IF tl.level > 0
        THEN LET two == SubSeq(skippingOrgs, 1, IF Len(skippingOrgs) > 2 THEN 2
                                                ELSE Len(skippingOrgs))
                 rightEdge == two[1]
                 rest == SeqFilterIn(sorted, Range(sorted) \ Range(two))
                 orgs1 == Append(rest, rightEdge)
                 orgs2 == IF Len(two) > 1 THEN <<two[2]>> \o orgs1 ELSE orgs1
                 st2 == [st EXCEPT !.levels[k].orgs = orgs2]
                 st3 == SetSkipLine(st2, tl.level, 1, nd[rightEdge].lineSkipsLevels, TRUE)
             IN  IF Len(two) > 1
                 THEN SetSkipLine(st3, tl.level, 1, nd[two[2]].lineSkipsLevels, FALSE)
                 ELSE st3
        ELSE IF ~Has(st.levels, 0)
        THEN [st1 EXCEPT !.err = "TypeError: levels.get(0) is undefined"]
        ELSE LET first == skippingOrgs[1]
                 last == skippingOrgs[Len(skippingOrgs)]
                 topLevelSize == Len(Get(st1.levels, 0).orgs)
                                     * (cfg.maxColWidth + cfg.horizontalSpacing)
                 far == cfg.availableSpace > topLevelSize
                 \* levels.root is node 1
                 rightEdge == IF last # 1 \/ far THEN 0 ELSE last
                 leftEdge == IF first # 1 \/ far THEN 0 ELSE first
                 st2 == IF rightEdge # 0
                        THEN SetSkipLine(st1, tl.level, 1,
                                         nd[rightEdge].lineSkipsLevels, TRUE)
                        ELSE st1
             IN  IF leftEdge # 0
                 THEN SetSkipLine(st2, tl.level, 1, nd[leftEdge].lineSkipsLevels, FALSE)
                 ELSE st2

RECURSIVE LastPass(_, _, _, _)
\* for (const [, treeLevel] of levels.entries()) of the sort and edge pass
LastPass(cfg, nd, k, st) ==
    IF k > Len(st.levels) \/ st.err # "" THEN st
    ELSE LastPass(cfg, nd, k + 1, SortAndEdges(cfg, nd, k, st))

\* export function calculateLevelOrientations(levels, config):
\* [nodes, levels, expanded, err]
calculateLevelOrientations(o, cfg, nd, lv) ==
    LET p2 == SecondPass(o, 1, [nodes |-> nd, levels |-> FirstPass(cfg, lv),
                                visited |-> {}, expanded |-> <<>>])
        p3 == ThirdPass(o, p2.levels, 1, [nodes |-> p2.nodes, orgsToMove |-> <<>>])
        moved == MoveOrgs(p2.levels, p3.orgsToMove, 1)
        p5 == LastPass(cfg, p3.nodes, 1, [levels |-> moved, err |-> ""])
    IN  [nodes |-> p3.nodes, levels |-> p5.levels, expanded |-> p2.expanded,
         err |-> p5.err]

-----------------------------------------------------------------------------
(* measureOrgBoxes.  The browser's layout of the hidden container is the    *)
(* measurement: a box is as wide as the width its element was given, as    *)
(* high as its text (SmallHeight, or LargeHeight with the -large class),   *)
(* the level containers are stacked from the top of the hidden container,  *)
(* the boxes of a horizontal level are centred on the level's row and the  *)
(* boxes of a vertical sub-tree are stacked with the sub-tree's gap.       *)

\* rendered height of a box without and with the -large class
SmallHeight == 40

LargeHeight == 60

BoxHeight(o, x) == IF o.large[x] THEN Q(LargeHeight) ELSE Q(SmallHeight)

\* a node without an entry in the placement map
NoPlacement ==
    [has |-> FALSE, width |-> Q(0), height |-> Q(0), top |-> Q(0), left |-> Undefined]

\* orgSizes.set(id, {width, height, top})
Measured(w, h, t) == [has |-> TRUE, width |-> w, height |-> h, top |-> t, left |-> Undefined]

RECURSIVE renderVerticalSubtree(_, _, _, _, _, _)
RECURSIVE renderVerticalChildren(_, _, _, _, _, _, _)

\* function renderVerticalSubtree(org, parent, offset): the box is appended
\* to the sub-tree container with margin-left offset and width
\* calc(100% - offset), then the children with one more verticalChildOffset.
\* st = [sizes, y]
renderVerticalSubtree(o, cfg, x, containerWidth, offset, st) ==
    LET w == QMax(Q(0), QSub(containerWidth, Q(offset)))
        st1 == [st EXCEPT
                   !.sizes[x] = Measured(w, BoxHeight(o, x), st.y),
                   !.y = QAdd(QAdd(@, BoxHeight(o, x)), Q(cfg.verticalSubtreeSpacing))]
    IN  renderVerticalChildren(o, cfg, Children(o, x), 1, containerWidth,
                               offset + cfg.verticalChildOffset, st1)

\* for (const child of org.children) inside renderVerticalSubtree
renderVerticalChildren(o, cfg, kids, c, containerWidth, offset, st) ==
    IF c > Len(kids) THEN st
    ELSE renderVerticalChildren(o, cfg, kids, c + 1, containerWidth, offset,
             renderVerticalSubtree(o, cfg, kids[c], containerWidth, offset, st))

\* Math.min(Math.max(w, minColWidth), maxColWidth)
ClampColWidth(cfg, w) == QMin(QMax(w, Q(cfg.minColWidth)), Q(cfg.maxColWidth))

\* config.availableSpace less skipLineExtraSpacing for each skip flag of the level
RealAvailableSpace(cfg, tl) ==
    cfg.availableSpace
        - (IF tl.rightSkipLine THEN cfg.skipLineExtraSpacing ELSE 0)
        - (IF tl.leftSkipLine THEN cfg.skipLineExtraSpacing ELSE 0)

RECURSIVE QMaxOver(_, _, _)
\* the largest of f[x] for x in the list, at least m
QMaxOver(f, xs, m) ==
    IF xs = <<>> THEN m ELSE QMaxOver(f, Tail(xs), QMax(m, f[Head(xs)]))

\* The horizontal branch of the level loop.  st = [sizes, y, first, err]
MeasureHorizontal(o, cfg, tl, st) ==
    LET largeOrgs == {x \in Range(tl.orgs) : o.large[x]}
        smallOrgs == {x \in Range(tl.orgs) : ~o.large[x]}
        totalUnits == QAdd(QMul(Q(Cardinality(largeOrgs)), cfg.largeOrgSizeMultiplier),
                           Q(Cardinality(smallOrgs)))
        unitWidth == QDiv(QSub(Q(RealAvailableSpace(cfg, tl)),
                               QMul(QSub(totalUnits, Q(1)), Q(cfg.horizontalSpacing))),
                          totalUnits)
        largeOrgWidth == ClampColWidth(cfg, QMul(unitWidth, cfg.largeOrgSizeMultiplier))
        smallOrgWidth == ClampColWidth(cfg, unitWidth)
        heights == [x \in 1..o.n |-> BoxHeight(o, x)]
        maxHeight == QMaxOver(heights, tl.orgs, Q(0))
        same == smallOrgs = {} \/ largeOrgs = {}
        box(x) ==
            \* the rectangle of the element, centred on the row, and the
            \* equal heights of a level whose orgs are all of one size
            IF same
            THEN Measured(IF o.large[x] THEN largeOrgWidth ELSE smallOrgWidth,
                          maxHeight, st.y)
            ELSE Measured(IF o.large[x] THEN largeOrgWidth ELSE smallOrgWidth,
                          heights[x],
                          QAdd(st.y, QHalf(QSub(maxHeight, heights[x]))))
    IN  [st EXCEPT
            !.sizes = [x \in DOMAIN @ |-> IF x \in Range(tl.orgs) THEN box(x) ELSE @[x]],
            !.y = QAdd(QAdd(@, maxHeight), Q(cfg.verticalSpacing)),
            !.first = FALSE]

RECURSIVE UniqueParents(_, _, _)
\* new Set of org.parent over treeLevel.orgs, in insertion order
UniqueParents(o, orgs, acc) ==
    IF orgs = <<>> THEN acc
    ELSE LET p == o.parent[Head(orgs)]
         IN  UniqueParents(o, Tail(orgs),
                           IF p # 0 /\ p \notin Range(acc) THEN Append(acc, p) ELSE acc)

RECURSIVE MeasureSubtreeChildren(_, _, _, _, _, _, _, _)
\* for (const child of org.children || [])
\*     if (child.level && child.level >= level) renderVerticalSubtree(...)
MeasureSubtreeChildren(o, cfg, nd, level, kids, c, containerWidth, st) ==
    IF c > Len(kids) THEN st
    ELSE LET lv == nd[kids[c]].level
             st1 == IF lv # 0 /\ lv >= level
                    THEN renderVerticalSubtree(o, cfg, kids[c], containerWidth,
                                               cfg.verticalChildOffset, st)
                    ELSE st
         IN  MeasureSubtreeChildren(o, cfg, nd, level, kids, c + 1, containerWidth, st1)

RECURSIVE MeasureSubtrees(_, _, _, _, _, _, _, _)
\* for (const org of uniqueParents): one sub-tree container per parent, as
\* wide as the parent's box less verticalChildOffset; the containers start
\* at the same top y0.  st = [sizes, y, first, err, bottom]
MeasureSubtrees(o, cfg, nd, level, parents, u, y0, st) ==
    IF u > Len(parents) \/ st.err # "" THEN st
    ELSE LET p == parents[u]
         IN  IF ~st.sizes[p].has
             THEN [st EXCEPT !.err = "TypeError: orgSizes.get(org.id) is undefined"]
             ELSE LET cw == QSub(st.sizes[p].width, Q(cfg.verticalChildOffset))
                      r == MeasureSubtreeChildren(o, cfg, nd, level, Children(o, p), 1, cw,
                                                  [sizes |-> st.sizes, y |-> y0])
                  IN  MeasureSubtrees(o, cfg, nd, level, parents, u + 1, y0,
                                      [st EXCEPT !.sizes = r.sizes,
                                                 !.bottom = QMax(@, r.y)])

\* The branch of the level loop for the first vertical level of a run
MeasureVertical(o, cfg, nd, tl, st) ==
    LET r == MeasureSubtrees(o, cfg, nd, tl.level, UniqueParents(o, tl.orgs, <<>>), 1,
                             st.y, [sizes |-> st.sizes, y |-> st.y, first |-> TRUE,
                                    err |-> st.err, bottom |-> st.y])
    IN  [sizes |-> r.sizes, y |-> r.bottom, first |-> TRUE, err |-> r.err]

RECURSIVE MeasureLevels(_, _, _, _, _, _, _)
\* for (let level = 0; level <= maxLevel; level++).  st.first is
\* firstVerticalLevel !== null
MeasureLevels(o, cfg, nd, lv, level, maxLevel, st) ==
    IF level > maxLevel \/ st.err # "" THEN st
    ELSE LET st1 ==
                 IF ~Has(lv, level) THEN st
                 ELSE LET tl == Get(lv, level)
                      IN  IF tl.orientation = "horizontal"
                          THEN MeasureHorizontal(o, cfg, tl, st)
                          ELSE IF ~st.first /\ tl.orientation = "vertical"
                          THEN MeasureVertical(o, cfg, nd, tl, st)
                          ELSE st
         IN  MeasureLevels(o, cfg, nd, lv, level + 1, maxLevel, st1)

\* The measuring part of measureOrgBoxes, before the call of
\* calculateHorizontalPositions: [sizes, y, first, err]
MeasureAll(o, cfg, nd, lv) ==
    MeasureLevels(o, cfg, nd, lv, 0, SetMax(Keys(lv)),
                  [sizes |-> [x \in 1..o.n |-> NoPlacement], y |-> Q(0),
                   first |-> FALSE, err |-> ""])

-----------------------------------------------------------------------------
(* calculateHorizontalPositions *)

\* function centerOrg(orgId, containerWidth)
centerOrg(pl, x, containerWidth) ==
    IF ~pl[x].has THEN Q(0)
    ELSE QMax(Q(0), QHalf(QSub(Q(containerWidth), pl[x].width)))

RECURSIVE applyVerticalLeft(_, _, _, _, _)
\* function applyVerticalLeft(orgs, left)
applyVerticalLeft(o, cfg, pl, orgs, left) ==
    IF orgs = <<>> THEN pl
    ELSE LET x == Head(orgs)
             pl1 == IF pl[x].has THEN [pl EXCEPT ![x].left = left] ELSE pl
             pl2 == applyVerticalLeft(o, cfg, pl1, Children(o, x),
                                      QAdd(left, Q(cfg.verticalChildOffset)))
         IN  applyVerticalLeft(o, cfg, pl2, Tail(orgs), left)

\* function shiftOrgs(orgs, shift)
shiftOrgs(pl, orgs, shift) ==
    [x \in DOMAIN pl |->
        IF x \in Range(orgs) /\ pl[x].has /\ pl[x].left # Undefined
        THEN [pl[x] EXCEPT !.left = QAdd(@, shift)]
        ELSE pl[x]]

RECURSIVE InsertByLeft(_, _)
\* b placed behind every element of the sorted list whose left is not larger
InsertByLeft(sorted, b) ==
    IF sorted = <<>> THEN <<b>>
    ELSE IF QLt(b.left, Head(sorted).left)
         THEN <<b>> \o sorted
         ELSE <<Head(sorted)>> \o InsertByLeft(Tail(sorted), b)

RECURSIVE SortByLeft(_)
\* list.sort((a, b) => a.left - b.left)
SortByLeft(bs) ==
    IF bs = <<>> THEN <<>>
    ELSE InsertByLeft(SortByLeft(SubSeq(bs, 1, Len(bs) - 1)), bs[Len(bs)])

RECURSIVE OrgsWithPlacement(_, _)
\* the {left, right} of the orgs of the list that have a left
OrgsWithPlacement(pl, orgs) ==
    IF orgs = <<>> THEN <<>>
    ELSE LET x == Head(orgs)
         IN  (IF pl[x].has /\ pl[x].left # Undefined
              THEN <<[left |-> pl[x].left, right |-> QAdd(pl[x].left, pl[x].width)]>>
              ELSE <<>>) \o OrgsWithPlacement(pl, Tail(orgs))

RECURSIVE Gaps(_, _)
\* the loop that records a gap before each box that starts more than one
\* unit after the previous box ends: [spaces, prevRight]
Gaps(boxes, acc) ==
    IF boxes = <<>> THEN acc
    ELSE LET b == Head(boxes)
             sp == IF QLt(QAdd(acc.prevRight, Q(1)), b.left)
                   THEN Append(acc.spaces, [start |-> acc.prevRight, end |-> b.left])
                   ELSE acc.spaces
         IN  Gaps(Tail(boxes), [spaces |-> sp, prevRight |-> b.right])

\* "Record empty spaces" for a level whose row ends at limit
EmptySpaces(pl, orgs, limit) ==
    LET g == Gaps(SortByLeft(OrgsWithPlacement(pl, orgs)),
                  [spaces |-> <<>>, prevRight |-> Q(0)])
    IN  IF QLt(g.prevRight, Q(limit))
        THEN Append(g.spaces, [start |-> g.prevRight, end |-> Q(limit)])
        ELSE g.spaces

\* lefts[] of the top level before the shift: the root centred, the second
\* org to its right, the third to its left; Undefined where the org has no
\* placement or is not one of the first three
TopLefts(cfg, pl, topOrgs) ==
    LET rootLeft == centerOrg(pl, topOrgs[1], cfg.availableSpace)
    IN  [i \in 1..Len(topOrgs) |->
            IF i = 1 THEN rootLeft
            ELSE IF i = 2 /\ pl[topOrgs[2]].has
            THEN QAdd(QAdd(rootLeft, pl[topOrgs[1]].width), Q(cfg.horizontalSpacing))
            ELSE IF i = 3 /\ pl[topOrgs[3]].has
            THEN QSub(rootLeft, QAdd(pl[topOrgs[3]].width, Q(cfg.horizontalSpacing)))
            ELSE Undefined]

RECURSIVE QMinOf(_, _)
\* Math.min over the defined entries of the list, at most m
QMinOf(xs, m) ==
    IF xs = <<>> THEN m
    ELSE QMinOf(Tail(xs), IF Head(xs) = Undefined THEN m ELSE QMin(m, Head(xs)))

RECURSIVE QMaxOf(_, _)
\* Math.max over the list, at least m
QMaxOf(xs, m) == IF xs = <<>> THEN m ELSE QMaxOf(Tail(xs), QMax(m, Head(xs)))

\* the shift that brings the top-level orgs into [0, availableSpace]
TopShift(cfg, pl, topOrgs, lefts) ==
    LET minLeft == QMinOf(lefts, lefts[1])
        rights == [i \in 1..Len(topOrgs) |->
                      IF pl[topOrgs[i]].has /\ lefts[i] # Undefined
                      THEN QAdd(lefts[i], pl[topOrgs[i]].width)
                      ELSE Q(0)]
        maxRight == QMaxOf(rights, rights[1])
    IN  IF QLt(minLeft, Q(0)) THEN QNeg(minLeft)
        ELSE IF QLt(Q(cfg.availableSpace), maxRight)
        THEN QSub(Q(cfg.availableSpace), maxRight)
        ELSE Q(0)

\* The placement of the top level: the root's level
PlaceTopLevel(cfg, pl, topOrgs) ==
    LET lefts == TopLefts(cfg, pl, topOrgs)
        shift == TopShift(cfg, pl, topOrgs, lefts)
    IN  [x \in DOMAIN pl |->
            IF \E i \in 1..Len(topOrgs) :
                  /\ i <= 3
                  /\ topOrgs[i] = x
                  /\ pl[x].has
                  /\ lefts[i] # Undefined
            THEN LET i == CHOOSE i \in 1..Len(topOrgs) : topOrgs[i] = x
                 IN  [pl[x] EXCEPT !.left = QAdd(lefts[i], shift)]
            ELSE pl[x]]

RECURSIVE GroupWidth(_, _)
\* the widths of the group's orgs that have a placement, summed
GroupWidth(pl, group) ==
    IF group = <<>> THEN Q(0)
    ELSE QAdd(IF pl[Head(group)].has THEN pl[Head(group)].width ELSE Q(0),
              GroupWidth(pl, Tail(group)))

RECURSIVE LayOutGroup(_, _, _, _)
\* the orgs of a group from left to right with horizontalSpacing between them
LayOutGroup(cfg, pl, group, offset) ==
    IF group = <<>> THEN pl
    ELSE LET x == Head(group)
         IN  IF pl[x].has
             THEN LayOutGroup(cfg, [pl EXCEPT ![x].left = offset], Tail(group),
                              QAdd(QAdd(offset, pl[x].width), Q(cfg.horizontalSpacing)))
             ELSE LayOutGroup(cfg, pl, Tail(group), offset)

\* the orgs of the level whose parent is pid, in the level's order
GroupOf(o, orgs, pid) == SeqFilterIn(orgs, {x \in Range(orgs) : o.parent[x] = pid})

RECURSIVE PlaceGroups(_, _, _, _, _, _, _)
\* for (const [pid, group] of parentGroups.entries()): the group is centred
\* under its parent, kept inside [0, realAvailableSpace] and laid out.
\* st = [pl, groupBounds]
PlaceGroups(o, cfg, orgs, pids, g, realAvailableSpace, st) ==
    IF g > Len(pids) THEN st
    ELSE LET pid == pids[g]
             group == GroupOf(o, orgs, pid)
             totalWidth == QAdd(GroupWidth(st.pl, group),
                                Q(cfg.horizontalSpacing * (Len(group) - 1)))
             pp == st.pl[pid]
             gl0 == IF pp.has /\ pp.left # Undefined
                    THEN QAdd(pp.left, QHalf(QSub(pp.width, totalWidth)))
                    ELSE centerOrg(st.pl, group[1], realAvailableSpace)
             gl1 == IF QLt(gl0, Q(0)) THEN Q(0) ELSE gl0
             groupLeft == IF QLt(Q(realAvailableSpace), QAdd(gl1, totalWidth))
                          THEN QSub(Q(realAvailableSpace), totalWidth)
                          ELSE gl1
         IN  PlaceGroups(o, cfg, orgs, pids, g + 1, realAvailableSpace,
                 [pl |-> LayOutGroup(cfg, st.pl, group, groupLeft),
                  groupBounds |-> Append(st.groupBounds,
                                         [pid |-> pid, left |-> groupLeft,
                                          right |-> QAdd(groupLeft, totalWidth)])])

RECURSIVE TotalOverlap(_, _, _)
\* the overlaps of adjacent groups (horizontalSpacing included), summed
TotalOverlap(cfg, gb, i) ==
    IF i > Len(gb) THEN Q(0)
    ELSE LET reach == QAdd(gb[i - 1].right, Q(cfg.horizontalSpacing))
         IN  QAdd(IF QLt(gb[i].left, reach) THEN QSub(reach, gb[i].left) ELSE Q(0),
                  TotalOverlap(cfg, gb, i + 1))

\* "Shift the first and last groups outwards to make space": [pl, groupBounds]
ResolveOverlap(o, cfg, orgs, pl, sortedBounds) ==
    LET totalOverlap == TotalOverlap(cfg, sortedBounds, 2)
        n == Len(sortedBounds)
        shiftAmount == QHalf(totalOverlap)
        first == sortedBounds[1]
        last == sortedBounds[n]
        gb1 == [sortedBounds EXCEPT ![1].left = QSub(@, shiftAmount),
                                    ![1].right = QSub(@, shiftAmount)]
        gb2 == [gb1 EXCEPT ![n].left = QAdd(@, shiftAmount),
                           ![n].right = QAdd(@, shiftAmount)]
        pl1 == shiftOrgs(pl, GroupOf(o, orgs, first.pid), QNeg(shiftAmount))
        pl2 == shiftOrgs(pl1, GroupOf(o, orgs, last.pid), shiftAmount)
    IN  IF QLt(Q(0), totalOverlap)
        THEN [pl |-> pl2, groupBounds |-> gb2]
        ELSE [pl |-> pl, groupBounds |-> sortedBounds]

\* "Finally make sure we're not outside the bounds of availableSpace"
FitLevel(o, cfg, tl, pl, gb, realAvailableSpace) ==
    LET lefts == [i \in DOMAIN gb |-> gb[i].left]
        rights == [i \in DOMAIN gb |-> gb[i].right]
        overallMinLeft == QMinOf(lefts, lefts[1])
        overallMaxRight == QMaxOf(rights, rights[1])
        leftBound == IF tl.leftSkipLine THEN cfg.skipLineExtraSpacing ELSE 0
        rightBound == realAvailableSpace + leftBound
        overallShift == IF QLt(overallMinLeft, Q(leftBound))
                        THEN QSub(Q(leftBound), overallMinLeft)
                        ELSE IF QLt(Q(rightBound), overallMaxRight)
                        THEN QSub(Q(rightBound), overallMaxRight)
                        ELSE Q(0)
        grouped == SeqFilterIn(tl.orgs, {x \in Range(tl.orgs) : o.parent[x] # 0})
    IN  IF overallShift # Q(0) THEN shiftOrgs(pl, grouped, overallShift) ELSE pl

\* The horizontal branch of the level loop: [pl, levels]
PlaceHorizontal(o, cfg, lv, k, pl) ==
    LET tl == lv[k]
        realAvailableSpace == RealAvailableSpace(cfg, tl)
        Fitted(fitted) ==
            [pl |-> fitted,
             levels |-> [lv EXCEPT ![k].emptySpaces =
                                       EmptySpaces(fitted, tl.orgs, realAvailableSpace)]]
        Resolved(resolved) ==
            Fitted(FitLevel(o, cfg, tl, resolved.pl, resolved.groupBounds,
                            realAvailableSpace))
        Placed(placed) ==
            Resolved(ResolveOverlap(o, cfg, tl.orgs, placed.pl,
                                    SortByLeft(placed.groupBounds)))
    IN  Placed(PlaceGroups(o, cfg, tl.orgs, UniqueParents(o, tl.orgs, <<>>), 1,
                           realAvailableSpace, [pl |-> pl, groupBounds |-> <<>>]))

RECURSIVE PlaceVerticalOrgs(_, _, _, _, _, _)
\* for (const org of treeLevel.orgs) of the vertical branch.  st = [pl, err]
PlaceVerticalOrgs(o, cfg, orgs, j, several, st) ==
    IF j > Len(orgs) \/ st.err # "" THEN st
    ELSE LET x == orgs[j]
         IN  IF several
             THEN IF o.parent[x] = 0 \/ ~st.pl[o.parent[x]].has
                  THEN [st EXCEPT !.err = "TypeError: parentPlacement is undefined"]
                  ELSE PlaceVerticalOrgs(o, cfg, orgs, j + 1, several,
                           [st EXCEPT !.pl = applyVerticalLeft(o, cfg, @, <<x>>,
                                        QAdd(st.pl[o.parent[x]].left,
                                             Q(cfg.verticalChildOffset)))])
             ELSE PlaceVerticalOrgs(o, cfg, orgs, j + 1, several,
                      [st EXCEPT !.pl = applyVerticalLeft(o, cfg, @, <<x>>,
                                   QSub(QHalf(Q(cfg.availableSpace)),
                                        QHalf(IF st.pl[x].has THEN st.pl[x].width
                                              ELSE Q(0))))])

\* The branch for the first vertical level of a run: [pl, levels, err]
PlaceVertical(o, cfg, lv, k, pl) ==
    LET tl == lv[k]
        several == Len(UniqueParents(o, tl.orgs, <<>>)) > 1
        Placed(r) ==
            [pl |-> r.pl,
             levels |-> [lv EXCEPT ![k].emptySpaces =
                                       <<[start |-> Q(0), end |-> Q(cfg.availableSpace)]>>],
             err |-> r.err]
    IN  Placed(PlaceVerticalOrgs(o, cfg, tl.orgs, 1, several, [pl |-> pl, err |-> ""]))

RECURSIVE OrderedKeys(_)
\* the keys of orderedEntries(): ascending
OrderedKeys(S) ==
    IF S = {} THEN <<>>
    ELSE LET m == CHOOSE x \in S : \A y \in S : x <= y
         IN  <<m>> \o OrderedKeys(S \ {m})

RECURSIVE PlaceLevels(_, _, _, _, _, _)
\* for (const [level, treeLevel] of levelsMap.orderedEntries()).
\* st = [pl, levels, skipVerticalLevels, err]
PlaceLevels(o, cfg, rootLevel, keys, i, st) ==
    IF i > Len(keys) \/ st.err # "" THEN st
    ELSE LET k == Idx(st.levels, keys[i])
             tl == st.levels[k]
             skip == st.skipVerticalLevels /\ tl.orientation # "horizontal"
             st1 ==
                 IF keys[i] = rootLevel \/ skip THEN st
                 ELSE IF tl.orientation = "horizontal"
                 THEN LET Placed(r) == [st EXCEPT !.pl = r.pl, !.levels = r.levels,
                                                   !.skipVerticalLevels = FALSE]
                      IN  Placed(PlaceHorizontal(o, cfg, st.levels, k, st.pl))
                 ELSE IF tl.orientation = "vertical"
                 THEN LET Placed(r) == [pl |-> r.pl, levels |-> r.levels,
                                        skipVerticalLevels |-> TRUE, err |-> r.err]
                      IN  Placed(PlaceVertical(o, cfg, st.levels, k, st.pl))
                 ELSE [st EXCEPT !.skipVerticalLevels = FALSE]
         IN  PlaceLevels(o, cfg, rootLevel, keys, i + 1, st1)

\* export function calculateHorizontalPositions(levelsMap, placements,
\* config): [pl, levels, err]
calculateHorizontalPositions(o, cfg, nd, lv, pl) ==
    LET rootLevel == nd[1].level
        unchanged == [pl |-> pl, levels |-> lv, err |-> ""]
    IN  IF ~Has(lv, rootLevel) THEN unchanged
        ELSE LET kTop == Idx(lv, rootLevel)
                 topOrgs == lv[kTop].orgs
             IN  IF Len(topOrgs) = 0 THEN unchanged
                 ELSE IF ~pl[topOrgs[1]].has THEN unchanged
                 ELSE LET Result(r) == [pl |-> r.pl, levels |-> r.levels, err |-> r.err]
                          TopPlaced(pl1) ==
                              Result(PlaceLevels(o, cfg, rootLevel, OrderedKeys(Keys(lv)), 1,
                                         [pl |-> pl1,
                                          levels |-> [lv EXCEPT ![kTop].emptySpaces =
                                                         EmptySpaces(pl1, topOrgs,
                                                                     cfg.availableSpace)],
                                          skipVerticalLevels |-> FALSE, err |-> ""]))
                      IN  TopPlaced(PlaceTopLevel(cfg, pl, topOrgs))

\* export function measureOrgBoxes(levelsMap, cssClass, config): the boxes
\* are measured, then calculateHorizontalPositions fills in left
measureOrgBoxes(o, cfg, nd, lv) ==
    LET Sized(m) ==
            IF m.err # "" THEN [pl |-> m.sizes, levels |-> lv, err |-> m.err]
            ELSE calculateHorizontalPositions(o, cfg, nd, lv, m.sizes)
    IN  Sized(MeasureAll(o, cfg, nd, lv))

-----------------------------------------------------------------------------
(* calculateLinesBetweenOrgs, calculateLinesForOrg *)

\* (placement.left || 0)
LeftOr0(p) == IF IsNum(p.left) THEN p.left ELSE Q(0)

CenterX(p) == QAdd(LeftOr0(p), QHalf(p.width))

CenterY(p) == QAdd(p.top, QHalf(p.height))

Bottom(p) == QAdd(p.top, p.height)

Point(x, y) == [x |-> x, y |-> y]

\* |a|
QAbs(a) == IF QLt(a, Q(0)) THEN QNeg(a) ELSE a

RECURSIVE ClosestGap(_, _, _)
\* the first gap whose centre is nearest to centerX; acc = [found, gap, distance]
ClosestGap(gaps, centerX, acc) ==
    IF gaps = <<>> THEN acc
    ELSE LET gap == Head(gaps)
             gapCenter == QHalf(QAdd(gap.start, gap.end))
             distance == QAbs(QSub(gapCenter, centerX))
         IN  ClosestGap(Tail(gaps), centerX,
                        IF ~acc.found \/ QLt(distance, acc.distance)
                        THEN [found |-> TRUE, gap |-> gap, distance |-> distance]
                        ELSE acc)

\* startX of a line that skips levels, for a parent whose next level exists
SkipStartX(cfg, next, placement, isFirst, isLast) ==
    IF ~next.leftSkipLine /\ ~next.rightSkipLine
    THEN LET c == ClosestGap(next.emptySpaces, CenterX(placement),
                             [found |-> FALSE, gap |-> [start |-> Q(0), end |-> Q(0)],
                              distance |-> Q(0)])
         IN  IF c.found THEN QHalf(QAdd(c.gap.start, c.gap.end)) ELSE CenterX(placement)
    ELSE IF isLast
    THEN QSub(QAdd(LeftOr0(placement), placement.width),
              QHalf(Q(cfg.skipLineExtraSpacing)))
    ELSE IF isFirst
    THEN QAdd(LeftOr0(placement), QHalf(Q(cfg.skipLineExtraSpacing)))
    ELSE CenterX(placement)

\* the y of the horizontal part of a line above the child
MidY(cfg, childPlacement, isChildVerticalLevel) ==
    QSub(childPlacement.top,
         QHalf(Q(IF isChildVerticalLevel THEN cfg.verticalSubtreeSpacing
                 ELSE cfg.verticalSpacing)))

\* LineTo with the default branch taken for every child
LineToElbow(cfg, nd, lv, pl, x, c) ==
    LET midY == MidY(cfg, pl[c], FALSE)
    IN  [points |-> <<Point(CenterX(pl[x]), Bottom(pl[x])),
                      Point(CenterX(pl[x]), midY),
                      Point(CenterX(pl[c]), midY),
                      Point(CenterX(pl[c]), pl[c].top)>>,
         edge |-> <<x, c>>, kind |-> "default", err |-> ""]

\* The line from org x to its child c: [points, edge, kind, err].  edge and
\* kind name the parent, the child and the branch taken; they are not part
\* of OrgLine.
LineTo(cfg, nd, lv, pl, x, c) ==
    LET placement == pl[x]
        childPlacement == pl[c]
        orgLevelObj == Get(lv, nd[x].level)
        isFirst == Len(orgLevelObj.orgs) > 0 /\ orgLevelObj.orgs[1] = x
        isLast == Len(orgLevelObj.orgs) > 0
                      /\ orgLevelObj.orgs[Len(orgLevelObj.orgs)] = x
        isChildVerticalLevel ==
            Has(lv, nd[c].level) /\ Get(lv, nd[c].level).orientation = "vertical"
        childCenterX == CenterX(childPlacement)
        line(kind, points) == [points |-> points, edge |-> <<x, c>>, kind |-> kind,
                               err |-> ""]
    IN  IF nd[c].level = nd[x].level
        THEN line("same", <<Point(CenterX(placement), CenterY(placement)),
                            Point(childCenterX, CenterY(childPlacement))>>)
        ELSE IF nd[x].lineSkipsLevels > 0
        THEN IF ~Has(lv, nd[x].level + 1)
             THEN [points |-> <<>>, edge |-> <<x, c>>, kind |-> "skip",
                   err |-> "TypeError: level is undefined"]
             ELSE LET startX == SkipStartX(cfg, Get(lv, nd[x].level + 1), placement,
                                           isFirst, isLast)
                      midY == MidY(cfg, childPlacement, isChildVerticalLevel)
                  IN  line("skip", <<Point(startX, CenterY(placement)),
                                     Point(startX, midY),
                                     Point(childCenterX, midY),
                                     Point(childCenterX, childPlacement.top)>>)
        ELSE IF isChildVerticalLevel
        THEN LET startX == QAdd(LeftOr0(placement), QHalf(Q(cfg.verticalChildOffset)))
                 midY == CenterY(childPlacement)
             IN  line("vertical", <<Point(startX, Bottom(placement)),
                                    Point(startX, midY),
                                    Point(childCenterX, midY)>>)
        ELSE LET midY == MidY(cfg, childPlacement, isChildVerticalLevel)
             IN  line("default", <<Point(CenterX(placement), Bottom(placement)),
                                   Point(CenterX(placement), midY),
                                   Point(childCenterX, midY),
                                   Point(childCenterX, childPlacement.top)>>)

RECURSIVE calculateLinesForOrg(_, _, _, _, _, _, _, _)
\* function calculateLinesForOrg(levelsMap, org, placements, config): the
\* loop over org.children.  st = [lines, err]
calculateLinesForOrg(cfg, nd, lv, pl, x, kids, c, st) ==
    IF ~pl[x].has \/ c > Len(kids) \/ st.err # "" THEN st
    ELSE calculateLinesForOrg(cfg, nd, lv, pl, x, kids, c + 1,
             IF pl[kids[c]].has
             THEN LET l == LineTo(cfg, nd, lv, pl, x, kids[c])
                  IN  IF l.err # "" THEN [st EXCEPT !.err = l.err]
                      ELSE [st EXCEPT !.lines = Append(@, [points |-> l.points,
                                                           edge |-> l.edge,
                                                           kind |-> l.kind])]
             ELSE st)

RECURSIVE traverseLines(_, _, _, _, _, _, _)
RECURSIVE traverseLinesChildren(_, _, _, _, _, _, _, _)

\* function traverse(org) of calculateLinesBetweenOrgs
traverseLines(o, cfg, nd, lv, pl, x, st) ==
    IF st.err # "" THEN st
    ELSE traverseLinesChildren(o, cfg, nd, lv, pl, Children(o, x), 1,
             calculateLinesForOrg(cfg, nd, lv, pl, x, Children(o, x), 1, st))

traverseLinesChildren(o, cfg, nd, lv, pl, kids, c, st) ==
    IF c > Len(kids) \/ st.err # "" THEN st
    ELSE traverseLinesChildren(o, cfg, nd, lv, pl, kids, c + 1,
                               traverseLines(o, cfg, nd, lv, pl, kids[c], st))

\* export function calculateLinesBetweenOrgs(levelsMap, placements, config)
calculateLinesBetweenOrgs(o, cfg, nd, lv, pl) ==
    traverseLines(o, cfg, nd, lv, pl, 1, [lines |-> <<>>, err |-> ""])

-----------------------------------------------------------------------------
(* The task of the component (OrgChart._treeTask) *)

NoErr == ""

\* what is left of an earlier run of the task: whether it returned, the keys
\* of its placement map, the placements and the lines
NoRun == [ran |-> FALSE, pc |-> "idle", ids |-> <<>>, placements |-> <<>>,
          lines |-> <<>>, err |-> NoErr]

Init ==
    /\ org = NoOrg
    /\ width = 1200
    /\ pc = "idle"
    /\ orgIdCount = 1
    /\ nodes = <<>>
    /\ levels = <<>>
    /\ levels0 = <<>>
    /\ nodes0 = <<>>
    /\ expanded = <<>>
    /\ placements = <<>>
    /\ lines = <<>>
    /\ attached = 0
    /\ err = NoErr
    /\ firstRun = NoRun
    /\ availableSpace = 1200

\* The org and width properties are set, which starts the task.
SetOrg ==
    /\ pc = "idle"
    /\ \E in \in Inputs :
          /\ org' = in[1]
          /\ width' = in[2]
    /\ pc' = "start"
    /\ UNCHANGED <<availableSpace, firstRun, orgIdCount, nodes, levels, levels0, nodes0, expanded,
                   placements, lines, attached, err>>

\* OrgChart.config.availableSpace = parseInt(this.width);
\* const tree = treeLevelOrgs(org)
TreeLevelOrgs ==
    /\ pc = "start"
    /\ availableSpace' = width
    /\ LET Returned(r) ==
               /\ nodes' = r.nodes
               /\ levels' = r.levels
               /\ nodes0' = r.nodes
               /\ levels0' = r.levels
               /\ orgIdCount' = r.idc
               /\ err' = r.err
               /\ pc' = IF r.err # NoErr THEN "failed" ELSE "levelled"
       IN  Returned(treeLevelOrgs(org, orgIdCount))
    /\ UNCHANGED <<firstRun, org, width, expanded, placements, lines, attached>>

\* treeLevelOrgs is exported: a caller other than the task, which returns
\* null before the call when org is null, calls it with a null root
TreeLevelOrgsOfNull ==
    /\ pc = "idle"
    /\ org = NoOrg
    /\ LET Returned(r) ==
               /\ nodes' = r.nodes
               /\ levels' = r.levels
               /\ nodes0' = r.nodes
               /\ levels0' = r.levels
               /\ orgIdCount' = r.idc
               /\ err' = r.err
               /\ pc' = IF r.err # NoErr THEN "failed" ELSE "levelled"
       IN  Returned(treeLevelOrgs(NoOrg, orgIdCount))
    /\ UNCHANGED <<availableSpace, firstRun, org, width, expanded, placements, lines, attached>>

\* calculateLevelOrientations(tree, OrgChart.config)
CalculateLevelOrientations ==
    /\ pc = "levelled"
    /\ LET Returned(r) ==
               IF r.err # NoErr
               THEN /\ pc' = "failed"
                    /\ err' = r.err
                    /\ UNCHANGED <<nodes, levels, expanded>>
               ELSE /\ pc' = "oriented"
                    /\ nodes' = r.nodes
                    /\ levels' = r.levels
                    /\ expanded' = r.expanded
                    /\ err' = err
       IN  Returned(calculateLevelOrientations(org, config, nodes, levels))
    /\ UNCHANGED <<availableSpace, firstRun, org, width, orgIdCount, levels0, nodes0, placements, lines,
                   attached>>

\* const measured = measureOrgBoxes(tree, "ilw-org-chart", OrgChart.config):
\* the hidden container is appended to document.body first and removed
\* after calculateHorizontalPositions has returned
MeasureOrgBoxes ==
    /\ pc = "oriented"
    /\ LET Returned(r) ==
               IF r.err # NoErr
               THEN /\ pc' = "failed"
                    /\ err' = r.err
                    /\ attached' = attached + 1
                    /\ UNCHANGED <<levels, placements>>
               ELSE /\ pc' = "measured"
                    /\ placements' = r.pl
                    /\ levels' = r.levels
                    /\ UNCHANGED <<attached, err>>
       IN  Returned(measureOrgBoxes(org, config, nodes, levels))
    /\ UNCHANGED <<availableSpace, firstRun, org, width, orgIdCount, nodes, levels0, nodes0, expanded, lines>>

\* const lines = calculateLinesBetweenOrgs(tree, measured, OrgChart.config)
CalculateLinesBetweenOrgs ==
    /\ pc = "measured"
    /\ LET Returned(r) ==
               IF r.err # NoErr
               THEN /\ pc' = "failed"
                    /\ err' = r.err
                    /\ lines' = lines
               ELSE /\ pc' = "done"
                    /\ lines' = r.lines
                    /\ err' = err
       IN  Returned(calculateLinesBetweenOrgs(org, config, nodes, levels, placements))
    /\ UNCHANGED <<availableSpace, firstRun, org, width, orgIdCount, nodes, levels, levels0, nodes0, expanded,
                   placements, attached>>

\* The task runs again on the same org and width (a new object with the same
\* content is assigned to org, or run() is called): the tree, the measured
\* map and the lines are locals of the new run; the module-level orgIdCount,
\* the static OrgChart.config and the children of document.body are kept.
Rerun ==
    /\ pc \in {"done", "failed"}
    /\ org # NoOrg
    /\ ~firstRun.ran
    /\ firstRun' = [ran |-> TRUE, pc |-> pc,
                 ids |-> [i \in 1..Len(nodes) |-> nodes[i].id],
                 placements |-> placements, lines |-> lines, err |-> err]
    /\ pc' = "start"
    /\ nodes' = <<>>
    /\ levels' = <<>>
    /\ levels0' = <<>>
    /\ nodes0' = <<>>
    /\ expanded' = <<>>
    /\ placements' = <<>>
    /\ lines' = <<>>
    /\ err' = NoErr
    /\ UNCHANGED <<org, width, orgIdCount, attached, availableSpace>>

Next ==
    \/ SetOrg
    \/ TreeLevelOrgs
    \/ TreeLevelOrgsOfNull
    \/ CalculateLevelOrientations
    \/ MeasureOrgBoxes
    \/ CalculateLinesBetweenOrgs
    \/ Rerun

Spec == Init /\ [][Next]_vars

-----------------------------------------------------------------------------
(* Properties *)

\* the stages have run and returned
StagesReturned == pc \in {"measured", "done"}

\* the orgs of the level map, over all levels
LevelOrgs == UNION {Range(levels[k].orgs) : k \in DOMAIN levels}

\* org x has a placement whose left is a number
HasLeft(x) == placements[x].has /\ IsNum(placements[x].left)

\* C1: calculateLinesBetweenOrgs, run after the three earlier stages, returns
\* one line per parent-child edge: as many lines as there are non-root nodes.
C1_OneLinePerEdge ==
    pc = "done" => Len(lines) = org.n - 1

\* C2: once measureOrgBoxes has returned, every org in the level map has an
\* entry in the placement map, and that entry's left is defined.
C2_EveryOrgPlaced ==
    StagesReturned =>
        \A x \in LevelOrgs :
            placements[x].has /\ placements[x].left # Undefined

\* the boxes of a and b share a point of the x axis
Overlap(a, b) ==
    /\ QLt(placements[a].left, QAdd(placements[b].left, placements[b].width))
    /\ QLt(placements[b].left, QAdd(placements[a].left, placements[a].width))

\* C3: after calculateHorizontalPositions no two boxes of one horizontal
\* level overlap: their intervals [left, left + width) are disjoint.
C3_NoOverlapInLevel ==
    StagesReturned =>
        \A k \in DOMAIN levels :
            levels[k].orientation = "horizontal" =>
                \A a, b \in Range(levels[k].orgs) :
                    (a # b /\ HasLeft(a) /\ HasLeft(b)) => ~Overlap(a, b)

RECURSIVE SumWidths(_, _)
\* the sum of the widths of the boxes of orgs[j..]
SumWidths(orgs, j) ==
    IF j > Len(orgs) THEN Q(0)
    ELSE QAdd(placements[orgs[j]].width, SumWidths(orgs, j + 1))

\* the widths of the level's boxes plus horizontalSpacing between them
Extent(tl) ==
    QAdd(SumWidths(tl.orgs, 1), Q(config.horizontalSpacing * (Len(tl.orgs) - 1)))

\* the root's level and the horizontal levels: the ones the solver lays out
\* in a row
IsRowLevel(tl) == tl.level = nodes[1].level \/ tl.orientation = "horizontal"

\* C4: in a level whose boxes, with horizontalSpacing between them, fit in
\* availableSpace, no box lies fully outside [0, availableSpace].
C4_BoxesInBounds ==
    StagesReturned =>
        \A k \in DOMAIN levels :
            (/\ IsRowLevel(levels[k])
             /\ \A x \in Range(levels[k].orgs) : HasLeft(x)
             /\ QLe(Extent(levels[k]), Q(config.availableSpace))) =>
                \A x \in Range(levels[k].orgs) :
                    /\ QLt(placements[x].left, Q(config.availableSpace))
                    /\ QLt(Q(0), QAdd(placements[x].left, placements[x].width))

\* calculateLevelOrientations has returned
Oriented == pc \in {"oriented", "measured", "done"}

\* the index in the level map of the level whose list holds org x
Holding(x) == CHOOSE k \in DOMAIN levels : x \in Range(levels[k].orgs)

\* C5: after calculateLevelOrientations every child of an org of a vertical
\* level is held by a vertical level: no horizontal level is reached from a
\* vertical one by following parent-to-child links.
C5_VerticalClosedUnderChildren ==
    Oriented =>
        \A x \in 2..org.n :
            levels[Holding(org.parent[x])].orientation = "vertical" =>
                levels[Holding(x)].orientation = "vertical"

\* an org whose level alone would be horizontal hangs under an org of a
\* vertical level
C5_Witness ==
    /\ pc = "oriented"
    /\ \E x \in 2..org.n :
          /\ levels[Holding(org.parent[x])].orientation = "vertical"
          /\ InitialOrientation(config, Get(levels0, nodes0[x].level)) = "horizontal"

RECURSIVE ComputedLevel(_, _)
\* the level the traversal computes for node i: the parent's computed level
\* plus one plus the node's weight, the root starting from 0
ComputedLevel(o, i) ==
    IF o.parent[i] = 0 THEN o.weight[i]
    ELSE ComputedLevel(o, o.parent[i]) + 1 + o.weight[i]

\* the nodes computed at level 0, in traversal order
AtZero == SeqFilterIn([i \in 1..org.n |-> i], {i \in 1..org.n : ComputedLevel(org, i) = 0})

\* the nodes computed at level 0 after the third: the ones demoted
DemotedSet == IF Len(AtZero) > 3 THEN Range(SubSeq(AtZero, 4, Len(AtZero))) ELSE {}

\* treeLevelOrgs has returned
Levelled == pc \notin {"idle", "start"} /\ levels0 # <<>>

RootLevel0 == CHOOSE k \in DOMAIN levels0 : 1 \in Range(levels0[k].orgs)

\* C7: for every input tree, whatever the weights, the level that holds the
\* root has between 1 and 3 nodes after treeLevelOrgs.
C7_RootLevelAtMostThree ==
    Levelled => Len(levels0[RootLevel0].orgs) \in 1..3

\* C8 as stated: the root's level is its weight, and every other node that
\* was not itself demoted has level = its parent's level + 1 + its weight,
\* the parent's level being the one in the returned map.
C8_LevelFromParentLevel ==
    Levelled =>
        /\ nodes0[1].level = org.weight[1]
        /\ \A x \in 2..org.n :
              x \notin DemotedSet =>
                  nodes0[x].level = nodes0[org.parent[x]].level + 1 + org.weight[x]

\* the level the parent had when its children were traversed: demotion
\* happens after the traversal, so a demoted parent was at level 0 then
LevelAtTraversal(p) == IF p \in DemotedSet THEN 0 ELSE nodes0[p].level

\* C8, amended: the root's level is its weight, and every other node that was
\* not itself demoted has level = the level its parent had during the
\* traversal + 1 + its weight; the children of a demoted node are not moved
\* with it.
C8_LevelFromTraversalLevel ==
    Levelled =>
        /\ nodes0[1].level = org.weight[1]
        /\ \A x \in 2..org.n :
              x \notin DemotedSet =>
                  nodes0[x].level = LevelAtTraversal(org.parent[x]) + 1 + org.weight[x]

\* a demoted node has a child, and a node has a non-zero weight
C8_Witness ==
    /\ pc = "levelled"
    /\ \E x \in 2..org.n : org.parent[x] \in DemotedSet
    /\ \E x \in 1..org.n : org.weight[x] # 0

\* the list is in ascending originalIndex order
Ascending(orgs) ==
    \A i, j \in DOMAIN orgs :
        i < j => nodes[orgs[i]].originalIndex <= nodes[orgs[j]].originalIndex

\* C9 as stated: after all passes of calculateLevelOrientations every level's
\* node list is in ascending originalIndex order.
C9_EveryLevelAscending ==
    Oriented => \A k \in DOMAIN levels : Ascending(levels[k].orgs)

\* the orgs of the level whose line skips levels
Skipping(tl) == {x \in Range(tl.orgs) : nodes[x].lineSkipsLevels > 0}

\* the level is one whose skipping orgs the last pass moves to the edges
EdgesMoved(tl) ==
    tl.orientation = "horizontal" /\ tl.level > 0 /\ Skipping(tl) # {}

\* C9, amended: every level's list is in ascending originalIndex order except
\* in a horizontal level below level 0 that holds orgs with lineSkipsLevels >
\* 0: there the first such org of the sorted list is last, the second, when
\* there is one, is first, and the rest of the list is in ascending order.
C9_AscendingButEdges ==
    Oriented =>
        \A k \in DOMAIN levels :
            LET tl == levels[k]
                n == Len(tl.orgs)
                two == Cardinality(Skipping(tl)) > 1
                rest == SubSeq(tl.orgs, IF two THEN 2 ELSE 1, n - 1)
            IN  IF EdgesMoved(tl)
                THEN /\ tl.orgs[n] \in Skipping(tl)
                     /\ two => tl.orgs[1] \in Skipping(tl)
                     /\ Ascending(rest)
                     /\ \A x \in Skipping(tl) :
                           nodes[tl.orgs[n]].originalIndex <= nodes[x].originalIndex
                     /\ \A x \in Skipping(tl) \ {tl.orgs[n]} :
                           two => nodes[tl.orgs[1]].originalIndex <= nodes[x].originalIndex
                ELSE Ascending(tl.orgs)

\* with the root at level 0, a level had its skipping org moved to the edge,
\* past an org of higher originalIndex
C9_Witness ==
    /\ pc = "oriented"
    /\ nodes[1].level = 0
    /\ \E k \in DOMAIN levels : EdgesMoved(levels[k]) /\ ~Ascending(levels[k].orgs)

\* the root level's list
TopOrgs == levels[Holding(1)].orgs

\* the left of the placement of org x, Undefined without a placement
LeftOf(x) == IF placements[x].has THEN placements[x].left ELSE Undefined

\* C10: after calculateHorizontalPositions, in a root level [A, B] or
\* [A, B, C], B.left = A.left + A.width + horizontalSpacing and C.left =
\* A.left - (C.width + horizontalSpacing).
C10_TopLevelLeftsRelate ==
    (StagesReturned /\ Len(TopOrgs) \in {2, 3}) =>
        LET A == TopOrgs[1]
            B == TopOrgs[2]
        IN  /\ HasLeft(A) /\ HasLeft(B)
            /\ LeftOf(B) = QAdd(QAdd(LeftOf(A), placements[A].width),
                                Q(config.horizontalSpacing))
            /\ Len(TopOrgs) = 3 =>
                  /\ HasLeft(TopOrgs[3])
                  /\ LeftOf(TopOrgs[3]) =
                         QSub(LeftOf(A), QAdd(placements[TopOrgs[3]].width,
                                              Q(config.horizontalSpacing)))

\* the keys of the run's placement map: the id of every org, in traversal order
Ids == [i \in 1..Len(nodes) |-> nodes[i].id]

\* Map<number, OrgPlacement> as a set of entries, from the ids and the
\* placements of the orgs in traversal order
PlacementMap(ids, pl) ==
    { <<ids[i], pl[i]>> : i \in {j \in 1..Len(pl) : pl[j].has} }

\* the task has run a second time on the same org and width and has ended
SecondRunEnded == firstRun.ran /\ pc \in {"done", "failed"}

C12_OnlyNullRootRejected ==
    /\ org = NoOrg => pc \in {"idle", "failed"}
    /\ org = NoOrg /\ pc = "failed" =>
           /\ err = NullRoot
           /\ levels = <<>>
           /\ nodes = <<>>
           /\ orgIdCount = 1
    /\ org # NoOrg /\ pc \notin {"idle", "start"} =>
           /\ err # NullRoot
           /\ levels0 # <<>>
           /\ Len(nodes0) = org.n

C12_Witness == org = NoOrg /\ pc = "failed" /\ err = NullRoot

\* the run has ended in measureOrgBoxes: a placement lookup of the level loop
\* or of calculateHorizontalPositions has thrown
MeasureFailed ==
    /\ pc = "failed"
    /\ err \in {"TypeError: orgSizes.get(org.id) is undefined",
                "TypeError: parentPlacement is undefined"}

\* C13: when a run of measureOrgBoxes has ended with an exception, it has
\* returned no placements and its hidden container is no longer a child of
\* document.body, so that a run started afterwards finds the document as the
\* first run found it.
C13_FailedMeasureRetainsNothing ==
    /\ MeasureFailed => placements = <<>> /\ attached = 0
    /\ pc = "start" => attached = 0

\* C14: in the level map treeLevelOrgs returns, the root has level 0 and is
\* the first org of level 0.
C14_RootInLevelZero ==
    levels0 # <<>> =>
        /\ nodes0[1].level = 0
        /\ Has(levels0, 0)
        /\ Get(levels0, 0).orgs[1] = 1

\* the run has ended in calculateLevelOrientations: a skip flag was to be set
\* on a level the map has no entry for, or the map has no level 0
OrientationsFailed ==
    /\ pc = "failed"
    /\ err \in {"TypeError: levels.get(level + i) is undefined",
                "TypeError: levels.get(0) is undefined"}

\* the run has ended in calculateLinesBetweenOrgs: the level below one whose
\* org has lineSkipsLevels > 0 has no entry in the map
LinesFailed == pc = "failed" /\ err = "TypeError: level is undefined"

\* C15: calculateLevelOrientations and calculateLinesBetweenOrgs return
\* normally on every tree, also when an edge skips a level without orgs.
C15_OrientationsAndLinesReturn == ~OrientationsFailed /\ ~LinesFailed

\* C16: a line has the skip route (it starts at the parent's vertical centre)
\* only when its child is more than one level below its parent; the line to
\* a child one level below has the vertical-child or the default route.
C16_SkipRouteOnlyForSkippingEdge ==
    pc = "done" =>
        \A k \in 1..Len(lines) :
            LET x == lines[k].edge[1]
                c == lines[k].edge[2]
            IN  /\ lines[k].kind = "skip" => nodes[c].level > nodes[x].level + 1
                /\ nodes[c].level = nodes[x].level + 1 =>
                       lines[k].kind \in {"vertical", "default"}

\* C17: after calculateLevelOrientations no org of a vertical level has a
\* level other than its parent's level + 1 while the map has a vertical
\* level parent.level + 1, and every org whose level was rewritten is in a
\* vertical level.
C17_WeightCorrectedInVerticalLevels ==
    Oriented =>
        /\ \A x \in 2..org.n :
              LET newLevel == nodes[org.parent[x]].level + 1
              IN  ~ /\ levels[Holding(x)].orientation = "vertical"
                    /\ nodes[x].level # newLevel
                    /\ Has(levels, newLevel)
                    /\ Get(levels, newLevel).orientation = "vertical"
        /\ \A x \in 1..org.n :
              nodes[x].level # nodes0[x].level =>
                  levels[Holding(x)].orientation = "vertical"

\* the orgs at the two ends of the level's list
Ends(tl) == {tl.orgs[1], tl.orgs[Len(tl.orgs)]}

\* C18: in a horizontal level below level 0 that holds orgs with
\* lineSkipsLevels > 0, the orgs at the ends of the list after
\* calculateLevelOrientations are the first and the last such org in sibling
\* order (the last org of the list when there is only one), and the orgs
\* between the ends, further skipping orgs included, are in sibling order.
C18_FirstAndLastSkippingAtEnds ==
    Oriented =>
        \A k \in DOMAIN levels :
            LET tl == levels[k]
                n == Len(tl.orgs)
                two == Cardinality(Skipping(tl)) > 1
            IN  EdgesMoved(tl) =>
                    /\ tl.orgs[n] \in Skipping(tl)
                    /\ two => tl.orgs[1] \in Skipping(tl)
                    /\ Ascending(SubSeq(tl.orgs, IF two THEN 2 ELSE 1, n - 1))
                    /\ \A x \in Skipping(tl) \ Ends(tl) :
                          /\ \E e \in Ends(tl) \cap Skipping(tl) :
                                nodes[e].originalIndex <= nodes[x].originalIndex
                          /\ \E e \in Ends(tl) \cap Skipping(tl) :
                                nodes[x].originalIndex <= nodes[e].originalIndex

\* the org the last pass pushed to the right end of the level's list
RightEdgeOf(tl) == tl.orgs[Len(tl.orgs)]

\* the org the last pass put at the left end of the list: there is one when
\* the level holds more than one skipping org
HasLeftEdge(tl) == EdgesMoved(tl) /\ Cardinality(Skipping(tl)) > 1

LeftEdgeOf(tl) == tl.orgs[1]

\* level number m is one of the lineSkipsLevels levels that follow the level
\* of org x
Spans(x, tl, m) == tl.level < m /\ m <= tl.level + nodes[x].lineSkipsLevels

\* the root level's org count times (maxColWidth + horizontalSpacing) is
\* less than availableSpace
RootFar ==
    Has(levels, 0)
        /\ config.availableSpace >
               Len(Get(levels, 0).orgs) * (config.maxColWidth + config.horizontalSpacing)

\* the flags of level number m can come from the root as the edge org of a
\* horizontal level that is not above level 0
RootAccounts(m) ==
    LET tl == levels[Holding(1)]
    IN  /\ tl.orientation = "horizontal"
        /\ tl.level <= 0
        /\ nodes[1].lineSkipsLevels > 0
        /\ ~RootFar
        /\ Spans(1, tl, m)

\* every level that follows the level of an edge org, as far as its line
\* skips, has the flag of the edge org's side
EdgeOrgsFlagLevels ==
    \A k \in DOMAIN levels :
        LET tl == levels[k]
        IN  /\ EdgesMoved(tl) =>
                \A m \in tl.level + 1 .. tl.level + nodes[RightEdgeOf(tl)].lineSkipsLevels :
                    Has(levels, m) /\ Get(levels, m).rightSkipLine
            /\ HasLeftEdge(tl) =>
                \A m \in tl.level + 1 .. tl.level + nodes[LeftEdgeOf(tl)].lineSkipsLevels :
                    Has(levels, m) /\ Get(levels, m).leftSkipLine

\* the right (left) flag of level number m comes from the right (left) edge
\* org of a horizontal level above level 0
RightAccounted(m) ==
    \E k \in DOMAIN levels :
        EdgesMoved(levels[k]) /\ Spans(RightEdgeOf(levels[k]), levels[k], m)

LeftAccounted(m) ==
    \E k \in DOMAIN levels :
        HasLeftEdge(levels[k]) /\ Spans(LeftEdgeOf(levels[k]), levels[k], m)

RootLevel == levels[Holding(1)]

\* the root level is one the last pass takes the branch "We don't move the
\* root" for: horizontal and not above level 0
RootLevelKept == RootLevel.orientation = "horizontal" /\ RootLevel.level <= 0

\* the list of the root level is the list treeLevelOrgs returned, sorted
RootLevelInOrder ==
    RootLevel.orgs =
        SortByOriginalIndex(nodes, Get(levels0, RootLevel.level).orgs)

\* the positions in the root level's list of the orgs whose line skips levels
SkippingAt == {i \in DOMAIN RootLevel.orgs : RootLevel.orgs[i] \in Skipping(RootLevel)}

\* the position of the root in the root level's list
RootAt == CHOOSE i \in DOMAIN RootLevel.orgs : RootLevel.orgs[i] = 1

\* every skip flag is accounted for by an edge org of a level above level 0
NoFlagFromRootLevel ==
    \A k \in DOMAIN levels :
        /\ levels[k].rightSkipLine => RightAccounted(levels[k].level)
        /\ levels[k].leftSkipLine => LeftAccounted(levels[k].level)

\* the levels the root's line skips have the left flag when the root is the
\* first skipping org of its level and the right flag when it is the last
RootFlagsLevels ==
    \A m \in RootLevel.level + 1 .. RootLevel.level + nodes[1].lineSkipsLevels :
        /\ Has(levels, m)
        /\ (\A i \in SkippingAt : RootAt <= i) => Get(levels, m).leftSkipLine
        /\ (\A i \in SkippingAt : i <= RootAt) => Get(levels, m).rightSkipLine

\* C20 (as stated): calculateLevelOrientations leaves the horizontal root
\* level's list in its order, and a skip flag is set because of the root
\* level only when the root has lineSkipsLevels > 0 and availableSpace
\* exceeds the number of root-level orgs times (maxColWidth +
\* horizontalSpacing).
C20_RootFlagsWhenSpaceExceeds ==
    Oriented /\ RootLevel.orientation = "horizontal" =>
        /\ RootLevelInOrder
        /\ ~ ( /\ nodes[1].lineSkipsLevels > 0
               /\ config.availableSpace >
                      Len(RootLevel.orgs)
                          * (config.maxColWidth + config.horizontalSpacing) )
               => NoFlagFromRootLevel

\* C20 (amended): calculateLevelOrientations leaves the list of a horizontal
\* root level that is not above level 0 in its order; when the root has
\* lineSkipsLevels > 0 and availableSpace does not exceed the number of
\* level-0 orgs times (maxColWidth + horizontalSpacing), the levels the root's
\* line skips get the flag of each side on which the root is the outermost
\* skipping org of its level; in every other case no flag is set because of
\* the root level.
C20_RootFlagsWhenSpaceShort ==
    Oriented /\ RootLevelKept =>
        /\ RootLevelInOrder
        /\ IF nodes[1].lineSkipsLevels > 0 /\ ~RootFar
           THEN RootFlagsLevels
           ELSE NoFlagFromRootLevel

\* the root is at level 0, its line skips a level, the chart is no wider
\* than the root level's columns and the level below has the flags
C20_Witness ==
    /\ pc = "oriented"
    /\ RootLevelKept
    /\ nodes[1].level = 0
    /\ nodes[1].lineSkipsLevels > 0
    /\ ~RootFar
    /\ Has(levels, 1)
    /\ Get(levels, 1).leftSkipLine
    /\ Get(levels, 1).rightSkipLine

\* C21: after calculateLevelOrientations a vertical level has both skip flags
\* false and every org of it has lineSkipsLevels unset.
C21_VerticalLevelsCarryNoSkipState ==
    Oriented =>
        \A k \in DOMAIN levels :
            levels[k].orientation = "vertical" =>
                /\ ~levels[k].rightSkipLine
                /\ ~levels[k].leftSkipLine
                /\ \A x \in Range(levels[k].orgs) : nodes[x].lineSkipsLevels = NoSkip

\* the level numbers of the children of the orgs that treeLevelOrgs put in
\* level number l
ChildLevels(l) ==
    { nodes0[c].level :
        c \in { j \in 1..org.n : org.parent[j] # 0
                                    /\ org.parent[j] \in Range(Get(levels0, l).orgs) } }

RECURSIVE ReachedFrom(_)
\* the level numbers reached from those of S by following children's levels
ReachedFrom(S) ==
    LET T == S \cup UNION {ChildLevels(l) : l \in S}
    IN  IF T = S THEN S ELSE ReachedFrom(T)

\* the level numbers whose org count after leveling needs more than
\* availableSpace, or all of them with a column width that is not positive
TooNarrow ==
    { levels0[k].level : k \in { j \in DOMAIN levels0 :
          \/ config.minColWidth <= 0
          \/ config.maxColWidth <= 0
          \/ Max2(1, Len(levels0[j].orgs)) * config.minColWidth > config.availableSpace } }

\* C22: after calculateLevelOrientations a level is vertical exactly when its
\* org count after leveling needs more than availableSpace (or a column width
\* is not positive) or it is reached from such a level by following
\* children's levels; every other level is horizontal, and a horizontal
\* level's org count times minColWidth is at most availableSpace.
C22_VerticalIffNarrowOrReached ==
    Oriented =>
        \A k \in DOMAIN levels :
            /\ levels[k].orientation \in {"vertical", "horizontal"}
            /\ levels[k].orientation = "vertical"
                   <=> levels[k].level \in ReachedFrom(TooNarrow)
            /\ levels[k].orientation = "horizontal" =>
                   Len(levels[k].orgs) * config.minColWidth <= config.availableSpace

\* a level that is wide enough for its orgs is vertical beside a level that
\* is horizontal
C22_Witness ==
    /\ pc = "oriented"
    /\ \E k, h \in DOMAIN levels :
          /\ levels[k].orientation = "vertical"
          /\ levels[k].level \notin TooNarrow
          /\ levels[h].orientation = "horizontal"

\* C23: the vertical propagation ends on every tree, also when a child is on
\* its parent's level or above it: no level is expanded more than once, and
\* the expanded levels are the vertical ones.
C23_EachLevelExpandedOnce ==
    Oriented =>
        /\ \A i, j \in DOMAIN expanded : i # j => expanded[i] # expanded[j]
        /\ Len(expanded) <= Len(levels)
        /\ Range(expanded) =
               {levels[k].level : k \in {j \in DOMAIN levels :
                                            levels[j].orientation = "vertical"}}

\* an expanded level holds an org whose child treeLevelOrgs put on the same
\* level or above it
C23_Witness ==
    /\ pc = "oriented"
    /\ \E x \in 2..org.n :
          /\ nodes0[x].level <= nodes0[org.parent[x]].level
          /\ nodes0[org.parent[x]].level \in Range(expanded)
          /\ Len(expanded) > 1

\* the places <<k, i>> of the level map lv at which org x is listed
PlacesOf(lv, x) ==
    UNION { { <<k, i>> : i \in {j \in DOMAIN lv[k].orgs : lv[k].orgs[j] = x} } :
            k \in DOMAIN lv }

\* every org of the tree is listed at one place of lv, in the level whose
\* key is the org's level field in nd
Partitions(nd, lv) ==
    \A x \in 1..org.n :
        /\ Cardinality(PlacesOf(lv, x)) = 1
        /\ \A p \in PlacesOf(lv, x) : lv[p[1]].level = nd[x].level

\* C24: after treeLevelOrgs and after calculateLevelOrientations every node
\* of the tree is in exactly one level's list, once, and that level's key is
\* the node's level field.
C24_LevelsPartitionTree ==
    /\ Levelled => Partitions(nodes0, levels0)
    /\ Oriented => Partitions(nodes, levels)

\* the third pass has moved an org to another level
C24_Witness ==
    /\ pc = "oriented"
    /\ \E x \in 1..org.n : nodes[x].level # nodes0[x].level

\* C25: every node's level is at least 0 after treeLevelOrgs and after
\* calculateLevelOrientations, so that the level loop of measureOrgBoxes,
\* which starts at level 0, visits the level of every node.
C25_LevelsNotNegative ==
    /\ Levelled => \A x \in 1..org.n : nodes0[x].level >= 0
    /\ Oriented => \A x \in 1..org.n : nodes[x].level >= 0

\* the interval [gap.start, gap.end) and the box of x share a point
InGap(gap, x) ==
    /\ QLt(placements[x].left, gap.end)
    /\ QLt(gap.start, QAdd(placements[x].left, placements[x].width))

\* C26: after calculateHorizontalPositions every empty-space interval
\* recorded for the root level or for a horizontal level has start < end and
\* meets the extent [left, left + width) of no placed box of that level.
C26_EmptySpacesUnoccupied ==
    StagesReturned =>
        \A k \in DOMAIN levels :
            IsRowLevel(levels[k]) =>
                \A j \in DOMAIN levels[k].emptySpaces :
                    /\ QLt(levels[k].emptySpaces[j].start, levels[k].emptySpaces[j].end)
                    /\ \A x \in Range(levels[k].orgs) :
                          HasLeft(x) => ~InGap(levels[k].emptySpaces[j], x)

\* the parents of the orgs of a level: the keys of parentGroups
ParentsIn(tl) == {org.parent[x] : x \in Range(tl.orgs)}

\* the group of parent p in a level: the level's orgs whose parent is p
Members(tl, p) == Range(GroupOf(org, tl.orgs, p))

\* every box of group L ends at least horizontalSpacing before every box of
\* group R starts
Apart(L, R) ==
    \A a \in L, b \in R :
        QLe(QAdd(QAdd(LeftOf(a), placements[a].width), Q(config.horizontalSpacing)),
            LeftOf(b))

\* a horizontal level other than the root's whose orgs have two parents
TwoGroups(tl) ==
    /\ tl.orientation = "horizontal"
    /\ tl.level # nodes[1].level
    /\ Cardinality(ParentsIn(tl)) = 2

\* C27: after calculateHorizontalPositions, in a non-root horizontal level
\* whose orgs belong to exactly two parent groups, the left edge of the right
\* group lies at least horizontalSpacing to the right of the right edge of the
\* left group, also after the uniform shift that fits the level.
C27_TwoGroupsKeepSpacing ==
    StagesReturned =>
        \A k \in DOMAIN levels :
            TwoGroups(levels[k]) =>
                /\ \A x \in Range(levels[k].orgs) : HasLeft(x)
                /\ \E p, q \in ParentsIn(levels[k]) :
                      p # q /\ Apart(Members(levels[k], p), Members(levels[k], q))

\* level j comes right before level k in the order of orderedEntries()
RightBefore(j, k) ==
    /\ levels[j].level < levels[k].level
    /\ ~\E i \in DOMAIN levels :
          levels[j].level < levels[i].level /\ levels[i].level < levels[k].level

\* level k is vertical and the level before it, if any, is not: k starts a
\* run of vertical levels
FirstOfRun(k) ==
    /\ levels[k].orientation = "vertical"
    /\ \A j \in DOMAIN levels : RightBefore(j, k) => levels[j].orientation # "vertical"

\* level k is a vertical level that follows a vertical level
LaterOfRun(k) == levels[k].orientation = "vertical" /\ ~FirstOfRun(k)

RECURSIVE IsAncestor(_, _)
\* a is the parent of d, or the parent of one of d's ancestors
IsAncestor(a, d) ==
    IF org.parent[d] = 0 THEN FALSE
    ELSE org.parent[d] = a \/ IsAncestor(a, org.parent[d])

\* the left applyVerticalLeft gives the children of an org: the org's own
\* left + verticalChildOffset
Indented(d) ==
    /\ HasLeft(d) /\ HasLeft(org.parent[d])
    /\ LeftOf(d) = QAdd(LeftOf(org.parent[d]), Q(config.verticalChildOffset))

\* the left of a box centred in availableSpace
Centred(x) ==
    /\ HasLeft(x)
    /\ LeftOf(x) = QHalf(QSub(Q(config.availableSpace), placements[x].width))

\* C28: in the first level of each vertical run calculateHorizontalPositions
\* puts each org at its parent's left + verticalChildOffset when the level's
\* orgs have more than one parent and at (availableSpace - width) / 2 when
\* they have exactly one; every descendant of these orgs is at its parent's
\* left + verticalChildOffset; the later vertical levels of the run are not
\* processed (their emptySpaces stay as they were created).
C28_VerticalRunLefts ==
    StagesReturned =>
        \A k \in DOMAIN levels :
            /\ FirstOfRun(k) =>
                  \A x \in Range(levels[k].orgs) :
                      /\ Cardinality(ParentsIn(levels[k]) \ {0}) > 1 =>
                            org.parent[x] # 0 /\ Indented(x)
                      /\ Cardinality(ParentsIn(levels[k]) \ {0}) = 1 => Centred(x)
                      /\ \A d \in 1..org.n : IsAncestor(x, d) => Indented(d)
            /\ LaterOfRun(k) => levels[k].emptySpaces = <<>>

\* the case of calculateLinesForOrg that comes first for the edge p -> c
SameLevel(p, c) == nodes[c].level = nodes[p].level

SkipRouted(p, c) == ~SameLevel(p, c) /\ nodes[p].lineSkipsLevels > 0

VerticalChild(p, c) ==
    /\ ~SameLevel(p, c) /\ ~SkipRouted(p, c)
    /\ levels[Holding(c)].orientation = "vertical"

DefaultRouted(p, c) == ~SameLevel(p, c) /\ ~SkipRouted(p, c) /\ ~VerticalChild(p, c)

\* the points of line l have the shape of the first case that matches its
\* edge; a box's left is read as the line stage reads it, 0 when it has none
ShapeOf(l) ==
    LET p == l.edge[1]
        c == l.edge[2]
        P == placements[p]
        C == placements[c]
        n == Len(l.points)
    IN  /\ SameLevel(p, c) =>
              /\ n = 2
              /\ l.points[1] = Point(CenterX(P), CenterY(P))
              /\ l.points[2] = Point(CenterX(C), CenterY(C))
        /\ SkipRouted(p, c) =>
              n = 4 /\ l.points[1].y = CenterY(P)
        /\ VerticalChild(p, c) =>
              /\ n = 3
              /\ l.points[1] = Point(QAdd(LeftOr0(P), QHalf(Q(config.verticalChildOffset))),
                                     Bottom(P))
        /\ DefaultRouted(p, c) =>
              n = 4 /\ l.points[1] = Point(CenterX(P), Bottom(P))
        /\ ~SameLevel(p, c) => l.points[n].x = CenterX(C)

\* C29: every line calculateLinesForOrg emits has the shape of the first case
\* that matches, in the order: child on the parent's level (2 points, centre
\* to centre), parent.lineSkipsLevels > 0 (4 points from the parent's vertical
\* centre), child in a vertical level (3 points from parent.left +
\* verticalChildOffset / 2 on the parent's bottom edge), otherwise 4 points
\* from the parent's bottom centre; a line between two levels ends at the
\* child's horizontal centre.
C29_LineShapeByFirstCase ==
    pc = "done" => \A i \in DOMAIN lines : ShapeOf(lines[i])

\* one run drew a vertical-child line and, for a parent with lineSkipsLevels >
\* 0, a skip-routed line to a child that is in a vertical level too
C29_Witness ==
    /\ pc = "done"
    /\ \E i, j \in DOMAIN lines :
          /\ VerticalChild(lines[i].edge[1], lines[i].edge[2])
          /\ Len(lines[i].points) = 3
          /\ SkipRouted(lines[j].edge[1], lines[j].edge[2])
          /\ levels[Holding(lines[j].edge[2])].orientation = "vertical"
          /\ Len(lines[j].points) = 4

\* a run after the first one has got its ids from treeLevelOrgs
LaterRunLevelled == firstRun.ran /\ pc \notin {"idle", "start"} /\ nodes # <<>>

\* C30: no mutable layout state is shared between runs: a run finds the
\* config as it was constructed (availableSpace 1200), not as another run
\* wrote it, and the ids it assigns do not depend on any other run: a later
\* run on the same org assigns the ids the first run assigned.
C30_RunsShareNothing ==
    /\ pc = "start" => availableSpace = 1200
    /\ LaterRunLevelled => Ids = firstRun.ids

=============================================================================
